---- MODULE Spec2Model ----
(***************************************************************************)
(* A model of the Frame Rescaler (src/src/codec/video/scaler.rs) and of    *)
(* the Stream Descriptor (src/ac-ffmpeg/src/format/stream.rs and its       *)
(* older variant src/src/format/stream.rs).                                *)
(*                                                                         *)
(* An Option<T> is a sequence of length at most one: <<>> is None and      *)
(* <<x>> is Some(x).  A native pointer is a natural number, 0 being null.  *)
(***************************************************************************)
EXTENDS Integers, Sequences, FiniteSets, TLC

VARIABLES
    builder,    \* Option<VideoFrameScalerBuilder>: the builder being configured
    given,      \* what the caller passed to the setters of that builder
    scalers,    \* the VideoFrameScaler values alive in the program
    engines,    \* the native conversion engine: handle -> its record
    last        \* the last operation: its input, result and native calls

scalerVars == <<builder, given, scalers, engines, last>>

VARIABLES
    stream,     \* the Stream: its cached time_base
    native,     \* the native stream behind Stream::ptr
    lastRW,     \* the last time base read from or written to the native handle
    iter,       \* Option<SideDataIter>
    yielded,    \* what the SideDataIter has yielded so far
    slast       \* the last Stream operation: its input and result

streamVars == <<stream, native, lastRW, iter, yielded, slast>>

vars == <<builder, given, scalers, engines, last,
          stream, native, lastRW, iter, yielded, slast>>

None == <<>>
Some(x) == <<x>>

----------------------------------------------------------------------------
(* Bounds of the model.                                                    *)

\* The native int (c_int) is modelled CIntBits wide, usize twice as wide
\* (32 and 64 bits on the usual targets).
CIntBits == 3
\* Native engine handles the allocator can hand out.
MaxHandles == 2

Pow2(n) == 2 ^ n
UsizeBits == 2 * CIntBits

\* `x as c_int`: keep the low CIntBits bits, read as two's complement.
AsCInt(x) ==
    LET m == x % Pow2(CIntBits)
    IN  IF m >= Pow2(CIntBits - 1) THEN m - Pow2(CIntBits) ELSE m

\* `x as usize` of a c_int: sign-extend, keep the low UsizeBits bits.
AsUsize(x) == x % Pow2(UsizeBits)

----------------------------------------------------------------------------
(* codec::video::PixelFormat and VideoFrame: a newtype around the native   *)
(* format number, and the attributes of a decoded frame.                   *)

from_raw(raw) == [raw |-> raw]
into_raw(format) == format.raw

\* AV_PIX_FMT_NONE: the native "no format" number.
PixFmtNone == -1

Algorithms ==
    {"FastBilinear", "Bilinear", "Bicubic", "Experimental", "Point", "Area",
     "BicubicLinear", "Gauss", "Sinc", "Lanczos", "Spline"}

\* `algorithm as c_int`: the discriminants of enum Algorithm.
AlgorithmAsCInt(a) ==
    CASE a = "FastBilinear"  -> 1
      [] a = "Bilinear"      -> 2
      [] a = "Bicubic"       -> 4
      [] a = "Experimental"  -> 8
      [] a = "Point"         -> 16
      [] a = "Area"          -> 32
      [] a = "BicubicLinear" -> 64
      [] a = "Gauss"         -> 128
      [] a = "Sinc"          -> 256
      [] a = "Lanczos"       -> 512
      [] a = "Spline"        -> 1024

VideoFrame(w, h, f, tb) ==
    [width |-> w, height |-> h, pixel_format |-> f, time_base |-> tb]

----------------------------------------------------------------------------
(* Inputs of the Frame Rescaler operations.                                *)

\* Pixel formats a caller can hold: two real formats and "none".
PixelFormatInputs == {from_raw(PixFmtNone), from_raw(0), from_raw(1)}

\* usize dimensions: 0, 1, the first value that wraps to a negative c_int,
\* and one that wraps to a small positive c_int.
SourceDimInputs == {0, 1, Pow2(CIntBits - 1), Pow2(CIntBits) + 1}
TargetDimInputs == {0, 1, Pow2(CIntBits) + 1}

AlgorithmInputs == {"Bilinear", "Bicubic", "Lanczos"}

\* The smaller input sets of the life-cycle specification.
LifeFormatInputs == {from_raw(0), from_raw(1)}
LifeWidthInputs == {1, 2}
LifeDimInputs == {1}

FrameTimeBase == [num |-> 1, den |-> 25]
FrameInputs ==
    {VideoFrame(w, h, f, FrameTimeBase) :
        w \in {1, 2}, h \in {1, 2}, f \in LifeFormatInputs}

----------------------------------------------------------------------------
(* VideoFrameScalerBuilder                                                 *)

new ==
    [sformat |-> -1, swidth |-> 0, sheight |-> 0,
     tformat |-> None, twidth |-> 0, theight |-> 0,
     flags |-> AlgorithmAsCInt("Bicubic")]

\* What the caller has asked for so far: nothing, and dimensions of 0.
GivenNothing ==
    [sformat |-> None, tformat |-> None, algorithm |-> None,
     swidth |-> 0, sheight |-> 0, twidth |-> 0, theight |-> 0]

NoOp(name) ==
    [op |-> name, result |-> "", input |-> <<>>, calls |-> <<>>, out |-> <<>>]

\* VideoFrameScaler::builder()
Builder ==
    /\ builder = None
    /\ builder' = Some(new)
    /\ given' = GivenNothing
    /\ last' = NoOp("builder")
    /\ UNCHANGED <<scalers, engines>>

Set(b, g) ==
    /\ builder # None
    /\ builder' = Some(b)
    /\ given' = g
    /\ last' = NoOp("set")
    /\ UNCHANGED <<scalers, engines>>

source_pixel_format(format) ==
    Set([builder[1] EXCEPT !.sformat = into_raw(format)],
        [given EXCEPT !.sformat = Some(format)])

source_width(width) ==
    Set([builder[1] EXCEPT !.swidth = AsCInt(width)],
        [given EXCEPT !.swidth = width])

source_height(height) ==
    Set([builder[1] EXCEPT !.sheight = AsCInt(height)],
        [given EXCEPT !.sheight = height])

target_pixel_format(format) ==
    Set([builder[1] EXCEPT !.tformat = Some(into_raw(format))],
        [given EXCEPT !.tformat = Some(format)])

target_width(width) ==
    Set([builder[1] EXCEPT !.twidth = AsCInt(width)],
        [given EXCEPT !.twidth = width])

target_height(height) ==
    Set([builder[1] EXCEPT !.theight = AsCInt(height)],
        [given EXCEPT !.theight = height])

algorithm(a) ==
    Set([builder[1] EXCEPT !.flags = AlgorithmAsCInt(a)],
        [given EXCEPT !.algorithm = Some(a)])

----------------------------------------------------------------------------
(* The native conversion engine behind ffw_frame_scaler_new / _scale /     *)
(* _free.  engines maps every handle ever allocated to the number of times *)
(* it was freed and whether it was used after being freed.                 *)

Handles == 1 .. MaxHandles

\* The pointers ffw_frame_scaler_new can return: null, or a fresh handle.
ffw_frame_scaler_new_results ==
    {0} \cup {h \in Handles : h = Cardinality(DOMAIN engines) + 1}

ffw_frame_scaler_new(e, ptr) ==
    IF ptr = 0 THEN e
    ELSE [h \in DOMAIN e \cup {ptr} |->
            IF h = ptr THEN [frees |-> 0, useAfterFree |-> FALSE] ELSE e[h]]

ffw_frame_scaler_scale(e, ptr) ==
    IF ptr \in DOMAIN e /\ e[ptr].frees > 0
    THEN [e EXCEPT ![ptr].useAfterFree = TRUE]
    ELSE e

ffw_frame_scaler_free(e, ptr) ==
    IF ptr \in DOMAIN e THEN [e EXCEPT ![ptr].frees = @ + 1] ELSE e

Call(fn, args, ret) == [fn |-> fn, args |-> args, ret |-> ret]

----------------------------------------------------------------------------
(* VideoFrameScalerBuilder::build                                          *)

\* The if / else-if chain of build: the error message, "" when all pass.
\* (Variant of BuildCheck that tests the source width first.)
BuildCheck_WidthBeforeFormat(b, tformat) ==
    IF b.swidth < 1 THEN "invalid source width"
    ELSE IF b.sformat < 0 THEN "invalid source format"
    ELSE IF tformat < 0 THEN "invalid target format"
    ELSE IF b.sheight < 1 THEN "invalid source height"
    ELSE IF b.twidth < 1 THEN "invalid target width"
    ELSE IF b.theight < 1 THEN "invalid target height"
    ELSE ""
BuildCheck(b, tformat) ==
    IF b.sformat < 0 THEN "invalid source format"
    ELSE IF tformat < 0 THEN "invalid target format"
    ELSE IF b.swidth < 1 THEN "invalid source width"
    ELSE IF b.sheight < 1 THEN "invalid source height"
    ELSE IF b.twidth < 1 THEN "invalid target width"
    ELSE IF b.theight < 1 THEN "invalid target height"
    ELSE ""

\* self.tformat.unwrap_or(self.sformat)
\* (Variant of ResolveTarget that defaults to format 0.)
ResolveTarget_FirstFormat(b) == IF b.tformat = None THEN 0 ELSE b.tformat[1]
ResolveTarget(b) == IF b.tformat = None THEN b.sformat ELSE b.tformat[1]

NewArgs(b, tformat) ==
    [sformat |-> b.sformat, swidth |-> b.swidth, sheight |-> b.sheight,
     tformat |-> tformat, twidth |-> b.twidth, theight |-> b.theight,
     flags |-> b.flags]

VideoFrameScaler(ptr, b) ==
    [ptr |-> ptr, sformat |-> from_raw(b.sformat),
     swidth |-> AsUsize(b.swidth), sheight |-> AsUsize(b.sheight)]

build ==
    /\ builder # None
    /\ LET b == builder[1]
           tformat == ResolveTarget(b)
           err == BuildCheck(b, tformat)
       IN  IF err # ""
           THEN /\ last' = [op |-> "build", result |-> err,
                            input |-> <<b, given>>, calls |-> <<>>,
                            out |-> <<>>]
                /\ UNCHANGED <<scalers, engines>>
           ELSE \E ptr \in ffw_frame_scaler_new_results :
                  /\ engines' = ffw_frame_scaler_new(engines, ptr)
                  /\ IF ptr = 0
                     THEN /\ last' = [op |-> "build",
                                      result |-> "unable to create a frame scaler",
                                      input |-> <<b, given>>,
                                      calls |-> <<Call("ffw_frame_scaler_new",
                                                       NewArgs(b, tformat), ptr)>>,
                                      out |-> <<>>]
                          /\ UNCHANGED scalers
                     ELSE /\ last' = [op |-> "build", result |-> "ok",
                                      input |-> <<b, given>>,
                                      calls |-> <<Call("ffw_frame_scaler_new",
                                                       NewArgs(b, tformat), ptr)>>,
                                      out |-> <<VideoFrameScaler(ptr, b)>>]
                          /\ scalers' = scalers \cup {VideoFrameScaler(ptr, b)}
    /\ builder' = None
    /\ given' = GivenNothing

----------------------------------------------------------------------------
(* VideoFrameScaler::scale and Drop                                        *)

\* The if / else-if chain of scale: the error message, "" when all match.
\* (Variant of ScaleCheck without the pixel format test.)
ScaleCheck_NoFormatCheck(s, frame) ==
    IF s.swidth # frame.width THEN "frame width does not match"
    ELSE IF s.sheight # frame.height THEN "frame height does not match"
    ELSE ""
ScaleCheck(s, frame) ==
    IF s.swidth # frame.width THEN "frame width does not match"
    ELSE IF s.sheight # frame.height THEN "frame height does not match"
    ELSE IF s.sformat # frame.pixel_format
         THEN "frame pixel format does not match"
    ELSE ""

\* ffw_frame_scaler_scale returns a new frame (1) or null (0); the new frame
\* is wrapped with the input frame's time base.
scale(s, frame) ==
    /\ s \in scalers
    /\ LET err == ScaleCheck(s, frame)
       IN  IF err # ""
           THEN /\ last' = [op |-> "scale", result |-> err,
                            input |-> <<s, frame>>, calls |-> <<>>,
                            out |-> <<>>]
                /\ UNCHANGED engines
           ELSE \E res \in {0, 1} :
                  /\ engines' = ffw_frame_scaler_scale(engines, s.ptr)
                  /\ last' = [op |-> "scale",
                              result |-> IF res = 0 THEN "panic" ELSE "ok",
                              input |-> <<s, frame>>,
                              calls |-> <<Call("ffw_frame_scaler_scale",
                                               <<s.ptr, frame>>, res)>>,
                              out |-> IF res = 0 THEN <<>>
                                      ELSE <<[time_base |-> frame.time_base]>>]
    /\ UNCHANGED <<builder, given, scalers>>

\* impl Drop for VideoFrameScaler: the value goes away, its handle is freed.
\* (Variant of drop that forgets the handle.)
drop_NoFree(s) ==
    /\ s \in scalers
    /\ scalers' = scalers \ {s}
    /\ last' = [op |-> "drop", result |-> "", input |-> <<s>>,
                calls |-> <<>>, out |-> <<>>]
    /\ UNCHANGED <<builder, given, engines>>
drop(s) ==
    /\ s \in scalers
    /\ scalers' = scalers \ {s}
    /\ engines' = ffw_frame_scaler_free(engines, s.ptr)
    /\ last' = [op |-> "drop", result |-> "", input |-> <<s>>,
                calls |-> <<Call("ffw_frame_scaler_free", <<s.ptr>>, 0)>>,
                out |-> <<>>]
    /\ UNCHANGED <<builder, given>>

----------------------------------------------------------------------------
(* time::TimeBase and time::Timestamp                                      *)

\* TimeBase::new: the pair as given; equality is component-wise.
TimeBaseNew(num, den) == [num |-> num, den |-> den]

\* Raw ticks at or below this value are "unknown".
UnknownThreshold == 0

\* Timestamp::new: ticks at or below the threshold collapse to "unknown".
TimestampNew(pts, tb) ==
    [ticks |-> IF pts <= UnknownThreshold THEN None ELSE Some(pts),
     time_base |-> tb]

----------------------------------------------------------------------------
(* The native stream behind Stream::ptr.  Strings are sequences of         *)
(* characters; a metadata entry pointer is its position in the dictionary, *)
(* 0 being null.                                                           *)

NativeStream(tb, st, du, sd, md) ==
    [time_base |-> tb, start_time |-> st, duration |-> du,
     side_data |-> sd, metadata |-> md]

MaxTick == 2
MaxSideData == 3
MaxMeta == 3

TimeBaseInputs == {TimeBaseNew(1, 25), TimeBaseNew(2, 50), TimeBaseNew(1, 1000)}
RawTickInputs == (0 - MaxTick) .. MaxTick

SideDataTypeInputs == {[raw |-> 0], [raw |-> 5]}
BytesInputs == {<<>>, <<7>>, <<7, 9>>}
\* The statuses ffw_stream_add_side_data can return: 0, or a negative code.
AddStatusInputs == {0, -12, -22}

NulChar == "NUL"
KeyInputs == {<<"a">>, <<"a", "b">>}
ValueInputs == {<<"x">>, <<"y">>}
BadTextInputs == {<<"a", NulChar>>}

ffw_stream_get_time_base(n) == <<n.time_base.num, n.time_base.den>>
ffw_stream_set_time_base(n, num, den) ==
    [n EXCEPT !.time_base = [num |-> num, den |-> den]]
ffw_stream_get_start_time(n) == n.start_time
ffw_stream_get_duration(n) == n.duration

ffw_stream_get_nb_side_data(n) == Len(n.side_data)
\* index is 0-based
ffw_stream_get_side_data(n, index) == n.side_data[index + 1]
\* Copies size bytes of data into a new record at the end of the catalog.
ffw_stream_add_side_data(n, data_type, data, size) ==
    [n EXCEPT !.side_data =
        Append(@, [data_type |-> data_type, data |-> SubSeq(data, 1, size)])]

IsPrefix(p, t) == Len(p) <= Len(t) /\ SubSeq(t, 1, Len(p)) = p

\* The dictionary lookup: the first entry after prev whose key equals key,
\* or, with flag 2 (ignore suffix), starts with key; 0 when there is none.
ffw_stream_get_metadata_entry(n, key, prev, flags) ==
    LET hits == {i \in (prev + 1) .. Len(n.metadata) :
                    /\ n.metadata[i].key # None
                    /\ IF flags = 2 THEN IsPrefix(key, n.metadata[i].key[1])
                                    ELSE key = n.metadata[i].key[1]}
    IN  IF hits = {} THEN 0 ELSE CHOOSE i \in hits : \A j \in hits : i <= j
ffw_stream_get_metadata_entry_key(n, entry) == n.metadata[entry].key
ffw_stream_get_metadata_entry_value(n, entry) == n.metadata[entry].value

\* Setting a key replaces its first entry: the old one is removed, the new
\* one is added at the end.
ffw_stream_set_metadata(n, key, value) ==
    LET old == ffw_stream_get_metadata_entry(n, key, 0, 0)
        kept == IF old = 0 THEN n.metadata
                ELSE SubSeq(n.metadata, 1, old - 1)
                     \o SubSeq(n.metadata, old + 1, Len(n.metadata))
    IN  [n EXCEPT !.metadata =
            Append(kept, [key |-> Some(key), value |-> Some(value)])]

----------------------------------------------------------------------------
(* Stream: time base                                                       *)

SOp(name, result, input, out) ==
    [op |-> name, result |-> result, input |-> input, calls |-> <<>>,
     out |-> out]

\* Borrow rules: a &mut self method needs the Stream with no SideDataIter
\* borrowing it; a &self method only needs the Stream.
Shared == stream # None
Exclusive == stream # None /\ iter = None

from_raw_ptr ==
    /\ stream = None
    /\ LET tb == ffw_stream_get_time_base(native)
       IN  /\ stream' = Some([time_base |-> TimeBaseNew(tb[1], tb[2])])
           /\ lastRW' = Some(native.time_base)
    /\ slast' = SOp("from_raw_ptr", "", <<>>, <<>>)
    /\ UNCHANGED <<native, iter, yielded>>

time_base ==
    /\ Shared
    /\ slast' = SOp("time_base", "", <<>>, <<stream[1].time_base>>)
    /\ UNCHANGED <<stream, native, lastRW, iter, yielded>>

\* (Variant of set_time_base that leaves the cached value alone.)
set_time_base_NativeOnly(tb) ==
    /\ Exclusive
    /\ native' = ffw_stream_set_time_base(native, tb.num, tb.den)
    /\ lastRW' = Some(tb)
    /\ slast' = SOp("set_time_base", "", <<tb>>, <<>>)
    /\ UNCHANGED <<stream, iter, yielded>>
set_time_base(tb) ==
    /\ Exclusive
    /\ stream' = Some([stream[1] EXCEPT !.time_base = tb])
    /\ native' = ffw_stream_set_time_base(native, tb.num, tb.den)
    /\ lastRW' = Some(tb)
    /\ slast' = SOp("set_time_base", "", <<tb>>, <<>>)
    /\ UNCHANGED <<iter, yielded>>

\* The muxer or demuxer owning the native stream may replace its time base
\* (set_time_base is only a hint).
native_time_base_change(tb) ==
    /\ native.time_base # tb
    /\ native' = [native EXCEPT !.time_base = tb]
    /\ slast' = SOp("native_time_base_change", "", <<tb>>, <<>>)
    /\ UNCHANGED <<stream, lastRW, iter, yielded>>

\* (Variant of start_time that uses the native stream's time base.)
start_time_NativeBase ==
    /\ Shared
    /\ LET pts == ffw_stream_get_start_time(native)
       IN  slast' = SOp("start_time", "", <<pts>>,
                        <<TimestampNew(pts, native.time_base)>>)
    /\ UNCHANGED <<stream, native, lastRW, iter, yielded>>
start_time ==
    /\ Shared
    /\ LET pts == ffw_stream_get_start_time(native)
       IN  slast' = SOp("start_time", "", <<pts>>,
                        <<TimestampNew(pts, stream[1].time_base)>>)
    /\ UNCHANGED <<stream, native, lastRW, iter, yielded>>

duration ==
    /\ Shared
    /\ LET pts == ffw_stream_get_duration(native)
       IN  slast' = SOp("duration", "", <<pts>>,
                        <<TimestampNew(pts, stream[1].time_base)>>)
    /\ UNCHANGED <<stream, native, lastRW, iter, yielded>>

----------------------------------------------------------------------------
(* Stream: side data and SideDataIter                                      *)

\* SideDataRef::from_raw_ptr: the view of a native record.
SideDataRef(rec) == [data_type |-> [raw |-> rec.data_type], data |-> rec.data]

\* Stream::side_data: the iterator, with the native count snapshotted.
NewSideDataIter(n) == [index |-> 0, len |-> ffw_stream_get_nb_side_data(n)]

\* SideDataIter::next: <<the item, the iterator afterwards>>.
\* (Variant of IterNext that stops one entry early.)
IterNext_SkipLast(it, n) ==
    IF it.index + 1 >= it.len THEN <<None, it>>
    ELSE <<Some(SideDataRef(ffw_stream_get_side_data(n, it.index))),
           [it EXCEPT !.index = @ + 1]>>
IterNext(it, n) ==
    IF it.index = it.len THEN <<None, it>>
    ELSE <<Some(SideDataRef(ffw_stream_get_side_data(n, it.index))),
           [it EXCEPT !.index = @ + 1]>>

\* SideDataIter::size_hint: both bounds are len - index, a usize
\* subtraction (it would wrap, or panic in a debug build, if index > len).
SizeHint(it) ==
    LET hint == (it.len - it.index) % Pow2(UsizeBits)
    IN  <<hint, Some(hint)>>

side_data ==
    /\ Shared
    /\ iter = None
    /\ iter' = Some(NewSideDataIter(native))
    /\ yielded' = <<>>
    /\ slast' = SOp("side_data", "", <<>>, <<>>)
    /\ UNCHANGED <<stream, native, lastRW>>

next ==
    /\ iter # None
    /\ LET r == IterNext(iter[1], native)
       IN  /\ iter' = Some(r[2])
           /\ yielded' = yielded \o r[1]
           /\ slast' = SOp("next", "", <<iter[1]>>, <<r[1]>>)
    /\ UNCHANGED <<stream, native, lastRW>>

size_hint ==
    /\ iter # None
    /\ slast' = SOp("size_hint", "", <<iter[1]>>, <<SizeHint(iter[1])>>)
    /\ UNCHANGED <<stream, native, lastRW, iter, yielded>>

\* The iterator goes out of scope: its borrow of the Stream ends.
drop_iter ==
    /\ iter # None
    /\ iter' = None
    /\ yielded' = <<>>
    /\ slast' = SOp("drop_iter", "", <<>>, <<>>)
    /\ UNCHANGED <<stream, native, lastRW>>

\* The arguments add_side_data passes on: type, data pointer, data length.
\* (Variant of AddSideDataArgs that passes a length one too small.)
AddSideDataArgs_ShortLen(data_type, data) ==
    <<data_type.raw, data, IF Len(data) > 0 THEN Len(data) - 1 ELSE 0>>
AddSideDataArgs(data_type, data) == <<data_type.raw, data, Len(data)>>

add_side_data(data_type, data) ==
    /\ Exclusive
    /\ \E ret \in AddStatusInputs :
         /\ ret >= 0 => Len(native.side_data) < MaxSideData
         /\ LET a == AddSideDataArgs(data_type, data)
            IN  native' = IF ret < 0 THEN native
                          ELSE ffw_stream_add_side_data(native, a[1], a[2], a[3])
         /\ slast' = IF ret < 0
                     THEN SOp("add_side_data", "err",
                              <<data_type, data, native>>, <<ret>>)
                     ELSE SOp("add_side_data", "ok",
                              <<data_type, data, native>>, <<>>)
    /\ UNCHANGED <<stream, lastRW, iter, yielded>>

----------------------------------------------------------------------------
(* Stream: metadata                                                        *)

\* CString::new fails on an interior NUL byte.
HasNul(text) == \E i \in 1 .. Len(text) : text[i] = NulChar

set_metadata(key, value) ==
    /\ Exclusive
    /\ IF HasNul(key) \/ HasNul(value)
       THEN /\ slast' = SOp("set_metadata", "panic", <<key, value>>, <<>>)
            /\ UNCHANGED native
       ELSE \E ret \in {0, -12} :
              /\ ret >= 0 => Len(native.metadata) < MaxMeta
              /\ native' = IF ret < 0 THEN native
                           ELSE ffw_stream_set_metadata(native, key, value)
              /\ slast' = SOp("set_metadata",
                              IF ret < 0 THEN "panic" ELSE "ok",
                              <<key, value>>, <<>>)
    /\ UNCHANGED <<stream, lastRW, iter, yielded>>

get_metadata(key) ==
    /\ Shared
    /\ LET ptr == ffw_stream_get_metadata_entry(native, key, 0, 0)
           val == IF ptr = 0 THEN None
                  ELSE ffw_stream_get_metadata_entry_value(native, ptr)
       IN  slast' = SOp("get_metadata", "", <<key>>, <<val>>)
    /\ UNCHANGED <<stream, native, lastRW, iter, yielded>>

\* HashMap::insert: the value replaces the one the key had.
\* (Variant of Insert that keeps the value a key already has.)
Insert_KeepFirst(res, key, val) ==
    [k \in DOMAIN res \cup {key} |-> IF k \in DOMAIN res THEN res[k] ELSE val]
Insert(res, key, val) ==
    [k \in DOMAIN res \cup {key} |-> IF k = key THEN val ELSE res[k]]

\* The loop of metadata_dict, from the entry after prev on.
RECURSIVE MetadataDictLoop(_, _, _)
MetadataDictLoop(n, prev, res) ==
    LET entry == ffw_stream_get_metadata_entry(n, <<>>, prev, 2)
    IN  IF entry # 0
        THEN LET key_ptr == ffw_stream_get_metadata_entry_key(n, entry)
                 val_ptr == ffw_stream_get_metadata_entry_value(n, entry)
             IN  IF key_ptr # None /\ val_ptr # None
                 THEN MetadataDictLoop(n, entry,
                                       Insert(res, key_ptr[1], val_ptr[1]))
                 ELSE MetadataDictLoop(n, entry, res)
        ELSE res

metadata_dict ==
    /\ Shared
    /\ slast' = SOp("metadata_dict", "", <<>>,
                    <<MetadataDictLoop(native, 0, <<>>)>>)
    /\ UNCHANGED <<stream, native, lastRW, iter, yielded>>

----------------------------------------------------------------------------
(* Specifications of the Frame Rescaler.                                   *)

ScalerInit ==
    /\ builder = None
    /\ given = GivenNothing
    /\ scalers = {}
    /\ engines = <<>>
    /\ last = NoOp("init")

StreamIdle ==
    /\ stream = None
    /\ native = NativeStream(TimeBaseNew(1, 25), 0, 0, <<>>, <<>>)
    /\ lastRW = None
    /\ iter = None
    /\ yielded = <<>>
    /\ slast = NoOp("init")

\* Configuration and construction, over every setter and the wide inputs.
BuilderInit == ScalerInit /\ StreamIdle

BuilderNext ==
    \/ Builder /\ UNCHANGED streamVars
    \/ \E f \in PixelFormatInputs :
         source_pixel_format(f) /\ UNCHANGED streamVars
    \/ \E w \in SourceDimInputs : source_width(w) /\ UNCHANGED streamVars
    \/ \E h \in SourceDimInputs : source_height(h) /\ UNCHANGED streamVars
    \/ \E f \in PixelFormatInputs :
         target_pixel_format(f) /\ UNCHANGED streamVars
    \/ \E w \in TargetDimInputs : target_width(w) /\ UNCHANGED streamVars
    \/ \E h \in TargetDimInputs : target_height(h) /\ UNCHANGED streamVars
    \/ \E a \in AlgorithmInputs : algorithm(a) /\ UNCHANGED streamVars
    \/ build /\ UNCHANGED streamVars

BuilderSpec == BuilderInit /\ [][BuilderNext]_vars

\* Construction, use and destruction of Rescalers.
ScalerNext ==
    \/ Builder /\ UNCHANGED streamVars
    \/ \E f \in LifeFormatInputs :
         source_pixel_format(f) /\ UNCHANGED streamVars
    \/ \E w \in LifeWidthInputs : source_width(w) /\ UNCHANGED streamVars
    \/ \E h \in LifeDimInputs : source_height(h) /\ UNCHANGED streamVars
    \/ \E w \in LifeDimInputs : target_width(w) /\ UNCHANGED streamVars
    \/ \E h \in LifeDimInputs : target_height(h) /\ UNCHANGED streamVars
    \/ build /\ UNCHANGED streamVars
    \/ \E s \in scalers, frame \in FrameInputs :
         scale(s, frame) /\ UNCHANGED streamVars
    \/ \E s \in scalers : drop(s) /\ UNCHANGED streamVars

ScalerSpec == BuilderInit /\ [][ScalerNext]_vars

----------------------------------------------------------------------------
(* Claims about the Frame Rescaler.                                        *)

\* The six checks of build in their documented order, on a builder b.
BuildChecks(b) ==
    LET t == IF b.tformat = None THEN b.sformat ELSE b.tformat[1]
    IN  << <<b.sformat < 0, "invalid source format">>,
           <<t < 0,         "invalid target format">>,
           <<b.swidth < 1,  "invalid source width">>,
           <<b.sheight < 1, "invalid source height">>,
           <<b.twidth < 1,  "invalid target width">>,
           <<b.theight < 1, "invalid target height">> >>

\* C1: build returns the named error of the first failing check, in the
\* order source format, target format, source width, source height, target
\* width, target height, and calls ffw_frame_scaler_new only when no check
\* fails.
C1_BuildValidationOrder ==
    last.op = "build" =>
        LET checks == BuildChecks(last.input[1])
            failing == {i \in 1 .. 6 : checks[i][1]}
        IN  IF failing # {}
            THEN /\ \E i \in failing :
                      /\ \A j \in failing : i <= j
                      /\ last.result = checks[i][2]
                 /\ last.calls = <<>>
                 /\ last.out = <<>>
            ELSE /\ Len(last.calls) = 1
                 /\ last.calls[1].fn = "ffw_frame_scaler_new"
                 /\ last.result \in {"ok", "unable to create a frame scaler"}

\* A build that fails on the source width while two later checks would fail too.
C1_Witness ==
    /\ last.op = "build"
    /\ last.result = "invalid source width"
    /\ last.input[1].sheight < 1
    /\ last.input[1].theight < 1
    /\ last.calls = <<>>

\* C2: scale returns the width, height or pixel format mismatch error, in
\* that order, whenever the frame differs from the scaler's source contract,
\* without calling ffw_frame_scaler_scale; the engine is called exactly when
\* all three match.
C2_ScaleMismatchNoEngine ==
    last.op = "scale" =>
        LET s == last.input[1]
            frame == last.input[2]
            expected ==
                IF s.swidth # frame.width
                THEN "frame width does not match"
                ELSE IF s.sheight # frame.height
                THEN "frame height does not match"
                ELSE IF s.sformat # frame.pixel_format
                THEN "frame pixel format does not match"
                ELSE ""
        IN  IF expected # ""
            THEN last.result = expected /\ last.calls = <<>>
            ELSE /\ Len(last.calls) = 1
                 /\ last.calls[1].fn = "ffw_frame_scaler_scale"
                 /\ last.calls[1].args = <<s.ptr, frame>>

\* A frame that differs in height and in format: the height error is returned.
C2_Witness ==
    /\ last.op = "scale"
    /\ last.result = "frame height does not match"
    /\ last.input[1].sformat # last.input[2].pixel_format
    /\ last.calls = <<>>

\* C3: every handle ffw_frame_scaler_new returned is owned by exactly one
\* live VideoFrameScaler and not freed, or owned by none and freed exactly
\* once; no handle is passed to scale after it was freed; a build that
\* returns an error allocates no handle and frees nothing.
C3_HandleFreedExactlyOnce ==
    /\ \A h \in DOMAIN engines :
         LET owners == {s \in scalers : s.ptr = h}
         IN  /\ \/ Cardinality(owners) = 1 /\ engines[h].frees = 0
                \/ owners = {} /\ engines[h].frees = 1
             /\ ~engines[h].useAfterFree
    /\ \A s \in scalers : s.ptr \in DOMAIN engines
    /\ (last.op = "build" /\ last.result # "ok") =>
         \A i \in 1 .. Len(last.calls) :
            last.calls[i].fn = "ffw_frame_scaler_new" /\ last.calls[i].ret = 0
    /\ last.op = "drop" =>
         /\ Len(last.calls) = 1
         /\ last.calls[1].args = <<last.input[1].ptr>>

\* One Rescaler was destroyed while another one is still alive.
C3_Witness ==
    /\ last.op = "drop"
    /\ \E h \in DOMAIN engines : engines[h].frees = 1
    /\ \E s \in scalers : engines[s.ptr].frees = 0

\* C9: the target format passed to ffw_frame_scaler_new is the last one
\* given to target_pixel_format, or the source format when it was never
\* called; the flags are the last algorithm given, or bicubic (4).
C9_TargetFormatDefault ==
    (last.op = "build" /\ last.calls # <<>>) =>
        LET g == last.input[2]
            args == last.calls[1].args
        IN  /\ g.sformat # None
            /\ args.sformat = into_raw(g.sformat[1])
            /\ args.tformat = IF g.tformat = None
                              THEN into_raw(g.sformat[1])
                              ELSE into_raw(g.tformat[1])
            /\ args.flags = IF g.algorithm = None
                            THEN 4
                            ELSE AlgorithmAsCInt(g.algorithm[1])

\* A build with no target format and no algorithm given reached the engine.
C9_Witness ==
    /\ last.op = "build"
    /\ last.result = "ok"
    /\ last.input[2].tformat = None
    /\ last.input[2].algorithm = None
    /\ last.calls[1].args.tformat = 1

\* C10: build succeeds only if every dimension the caller gave is >= 1 and
\* representable as a native int, and the Rescaler then enforces the source
\* width and height the caller gave.
C10_NarrowingKeepsDimensions ==
    (last.op = "build" /\ last.result = "ok") =>
        LET g == last.input[2]
            s == last.out[1]
        IN  /\ \A d \in {g.swidth, g.sheight, g.twidth, g.theight} :
                 d >= 1 /\ d < Pow2(CIntBits - 1)
            /\ s.swidth = g.swidth
            /\ s.sheight = g.sheight

----------------------------------------------------------------------------
(* Specifications of the Stream.                                           *)

StreamStart(n) ==
    /\ stream = None
    /\ native = n
    /\ lastRW = None
    /\ iter = None
    /\ yielded = <<>>
    /\ slast = NoOp("init")

\* Sequences over S of length at most n.
SeqUpTo(S, n) == UNION {[1 .. k -> S] : k \in 0 .. n}

\* Time base, start time and duration.
TimeInit ==
    /\ ScalerInit
    /\ \E tb \in TimeBaseInputs, st \in RawTickInputs, du \in RawTickInputs :
         StreamStart(NativeStream(tb, st, du, <<>>, <<>>))

TimeNext ==
    \/ from_raw_ptr /\ UNCHANGED scalerVars
    \/ time_base /\ UNCHANGED scalerVars
    \/ \E tb \in TimeBaseInputs : set_time_base(tb) /\ UNCHANGED scalerVars
    \/ \E tb \in TimeBaseInputs :
         native_time_base_change(tb) /\ UNCHANGED scalerVars
    \/ start_time /\ UNCHANGED scalerVars
    \/ duration /\ UNCHANGED scalerVars

TimeSpec == TimeInit /\ [][TimeNext]_vars

\* Side data and its iterator.
SideDataInit ==
    /\ ScalerInit
    /\ \E sd \in SeqUpTo({[data_type |-> 5, data |-> <<1>>]}, 1) :
         StreamStart(NativeStream(TimeBaseNew(1, 25), 0, 0, sd, <<>>))

SideDataNext ==
    \/ from_raw_ptr /\ UNCHANGED scalerVars
    \/ side_data /\ UNCHANGED scalerVars
    \/ next /\ UNCHANGED scalerVars
    \/ size_hint /\ UNCHANGED scalerVars
    \/ drop_iter /\ UNCHANGED scalerVars
    \/ \E t \in SideDataTypeInputs, data \in BytesInputs :
         add_side_data(t, data) /\ UNCHANGED scalerVars

SideDataSpec == SideDataInit /\ [][SideDataNext]_vars

\* Metadata.
MetaEntries ==
    {[key |-> Some(k), value |-> Some(v)] : k \in KeyInputs, v \in ValueInputs}

MetaInit ==
    /\ ScalerInit
    /\ \E md \in SeqUpTo(MetaEntries, 2) :
         StreamStart(NativeStream(TimeBaseNew(1, 25), 0, 0, <<>>, md))

MetaNext ==
    \/ from_raw_ptr /\ UNCHANGED scalerVars
    \/ \E k \in KeyInputs \cup BadTextInputs, v \in ValueInputs :
         set_metadata(k, v) /\ UNCHANGED scalerVars
    \/ \E k \in KeyInputs : get_metadata(k) /\ UNCHANGED scalerVars
    \/ metadata_dict /\ UNCHANGED scalerVars

MetaSpec == MetaInit /\ [][MetaNext]_vars

----------------------------------------------------------------------------
(* Claims about the Stream.                                                *)

\* C4: the cached time base is the last value read from the native handle
\* by from_raw_ptr or written to it by set_time_base; time_base() returns
\* it, and right after set_time_base(tb) it is tb, component by component.
C4_CachedTimeBase ==
    /\ stream # None => lastRW = Some(stream[1].time_base)
    /\ stream = None => lastRW = None
    /\ slast.op = "time_base" => slast.out = lastRW
    /\ slast.op = "set_time_base" =>
         /\ stream[1].time_base.num = slast.input[1].num
         /\ stream[1].time_base.den = slast.input[1].den

\* time_base() returns 2/50 although the native stream has moved on.
C4_Witness ==
    /\ slast.op = "time_base"
    /\ slast.out = <<TimeBaseNew(2, 50)>>
    /\ native.time_base = TimeBaseNew(1, 25)

RECURSIVE Collect(_, _)
Collect(it, n) ==
    LET r == IterNext(it, n)
    IN  IF r[1] = None THEN <<>> ELSE r[1] \o Collect(r[2], n)

\* C6: after a successful add_side_data(T, bytes), iterating side_data()
\* yields the entries it yielded before, in order, and then one more entry
\* of type T with content bytes; a negative native status is returned as an
\* error carrying that status and changes nothing.
C6_AddSideDataAppends ==
    slast.op = "add_side_data" =>
        LET T == slast.input[1]
            bytes == slast.input[2]
            before == slast.input[3]
        IN  IF slast.result = "ok"
            THEN Collect(NewSideDataIter(native), native)
                 = Append(Collect(NewSideDataIter(before), before),
                          [data_type |-> T, data |-> bytes])
            ELSE /\ slast.result = "err"
                 /\ slast.out[1] < 0
                 /\ native = before

\* Two bytes were added after an entry that was already there.
C6_Witness ==
    /\ slast.op = "add_side_data"
    /\ slast.result = "ok"
    /\ slast.input[2] = <<7, 9>>
    /\ Len(slast.input[3].side_data) >= 1
    /\ Len(native.side_data) = Len(slast.input[3].side_data) + 1

\* C7: a SideDataIter's size_hint (lower = upper = len - index) is the
\* number of items next() will still yield; index never exceeds len, the
\* length snapshotted by side_data(); the items yielded so far are entries
\* 0 .. index-1 in order, and next() at index = len returns None.
C7_IterLength ==
    iter # None =>
        LET it == iter[1]
            remaining == Len(Collect(it, native))
        IN  /\ it.index <= it.len
            /\ it.len = Len(native.side_data)
            /\ SizeHint(it) = <<remaining, Some(remaining)>>
            /\ remaining = it.len - it.index
            /\ yielded = [i \in 1 .. it.index |->
                            SideDataRef(native.side_data[i])]
            /\ (slast.op = "next" /\ slast.input[1].index = slast.input[1].len)
                 => (slast.out = <<None>> /\ it = slast.input[1])

\* An exhausted iterator over two entries was asked for more.
C7_Witness ==
    /\ iter # None
    /\ iter[1].len = 2
    /\ Len(yielded) = 2
    /\ slast.op = "next"
    /\ slast.out = <<None>>

\* C8: metadata_dict() maps every key that occurs in the native dictionary
\* to the value of the last enumerated entry with that key, and holds no
\* other key.
C8_MetadataDictLastWins ==
    slast.op = "metadata_dict" =>
        LET m == native.metadata
            d == slast.out[1]
            lastOf(k) == CHOOSE i \in 1 .. Len(m) :
                            /\ m[i].key = Some(k)
                            /\ \A j \in (i + 1) .. Len(m) : m[j].key # Some(k)
        IN  /\ DOMAIN d = {m[i].key[1] : i \in 1 .. Len(m)}
            /\ \A k \in DOMAIN d : Some(d[k]) = m[lastOf(k)].value

\* The dictionary holds one key twice, with different values.
C8_Witness ==
    /\ slast.op = "metadata_dict"
    /\ \E i, j \in 1 .. Len(native.metadata) :
         /\ i < j
         /\ native.metadata[i].key = native.metadata[j].key
         /\ native.metadata[i].value # native.metadata[j].value

====
